---------------------------- MODULE Spec2Model ----------------------------
(***************************************************************************)
(* A model of langchain/schema/prompt_template.py: the value formatter     *)
(* registry (_format_value, _apply_formatter), BasePromptTemplate          *)
(* (validate_variable_names, partial, _prepare_variables, save) and        *)
(* format_document.                                                        *)
(*                                                                         *)
(* Python values are records [type, s, elems, keys]:                       *)
(*   type   the runtime type's name,                                       *)
(*   s      the text of a str, the page_content of a Document, the name    *)
(*          of a callable,                                                 *)
(*   elems  the elements of a list, the values of a dict (in order),       *)
(*   keys   the keys of a dict (in insertion order).                       *)
(* Python dicts that are not values (registries, partial_variables,        *)
(* keyword arguments, metadata) are sequences of <<key, value>> pairs with *)
(* distinct keys, in insertion order.                                      *)
(***************************************************************************)
EXTENDS Integers, Sequences, FiniteSets, TLC

VARIABLES
    registry,     \* _format_value: the formatters it is called with
    arg,          \* _format_value: the value it is called with
    formatted,    \* _format_value: the outcome of the call
    doc,          \* format_document: the document
    prompt,       \* format_document / save: the template the call is made on
    rendered,     \* format_document: the outcome, with the renderer's calls
    templates,    \* the template instances that exist, oldest first
    origin,       \* how each instance came to be (constructor or partial)
    clock,        \* how often the callable partial has been invoked so far
    prepared,     \* how often _prepare_variables ran on each instance
    last,         \* the outcome of the last template operation
    fs            \* save: the directories and files that exist

vars == <<registry, arg, formatted, doc, prompt, rendered,
          templates, origin, clock, prepared, last, fs>>

-----------------------------------------------------------------------------
(* Bounds of the model. *)

\* Longest list / dict value that is formatted.
MaxLen == 2
\* Most entries of a formatter registry handed to _format_value.
MaxReg == 2
\* Most names in the input_variables a template is constructed with.
MaxVars == 2
\* Most keys of a document's metadata.
MaxMeta == 2
\* Most partial_variables a template is constructed with.
MaxPartial == 2
\* Most bindings of one partial() call.
MaxBind == 1
\* Most variables supplied to one _prepare_variables call.
MaxSupplied == 1
\* Most template instances that exist.
MaxTemplates == 3
\* Most _prepare_variables calls while partial() derives instances.
MaxPrepare == 1
\* Most _prepare_variables calls on one constructed template.
MaxRepeat == 3

-----------------------------------------------------------------------------
(* Insertion-ordered dicts: sequences of <<key, value>> pairs. *)

Range(seq) == {seq[i] : i \in 1..Len(seq)}

Keys(d) == {d[i][1] : i \in 1..Len(d)}

KeyList(d) == [i \in 1..Len(d) |-> d[i][1]]

Has(d, k) == k \in Keys(d)

Get(d, k) == d[CHOOSE i \in 1..Len(d) : d[i][1] = k][2]

\* d[k] = v: an existing key keeps its place, a new key goes last.
Put(d, k, v) ==
    IF Has(d, k)
    THEN [i \in 1..Len(d) |-> IF d[i][1] = k THEN <<k, v>> ELSE d[i]]
    ELSE Append(d, <<k, v>>)

RECURSIVE Merge(_, _)
\* {**a, **b}
Merge(a, b) ==
    IF b = <<>> THEN a ELSE Merge(Put(a, b[1][1], b[1][2]), Tail(b))

\* The key -> value mapping of a dict, its order forgotten.
AsMap(d) == [k \in Keys(d) |-> Get(d, k)]

\* All dicts with distinct keys from ks, values from vs, at most n entries.
RECURSIVE DictsUpTo(_, _, _)
DictsUpTo(ks, vs, n) ==
    IF n = 0 THEN {<<>>}
    ELSE LET shorter == DictsUpTo(ks, vs, n - 1)
         IN  shorter \cup
             UNION {{Append(d, <<k, v>>) : k \in ks \ Keys(d), v \in vs} :
                        d \in {e \in shorter : Len(e) = n - 1}}

SeqsUpTo(S, n) == UNION {[1..m -> S] : m \in 0..n}

RECURSIVE Sum(_)
Sum(seq) == IF seq = <<>> THEN 0 ELSE seq[1] + Sum(Tail(seq))

-----------------------------------------------------------------------------
(* Values and their types. *)

Str(s) == [type |-> "str", s |-> s, elems |-> <<>>, keys |-> <<>>]
Document(s) == [type |-> "Document", s |-> s, elems |-> <<>>, keys |-> <<>>]
SubDocument(s) == [type |-> "SubDocument", s |-> s, elems |-> <<>>, keys |-> <<>>]
List(es) == [type |-> "list", s |-> "", elems |-> es, keys |-> <<>>]
Dict(ks, es) == [type |-> "dict", s |-> "", elems |-> es, keys |-> ks]
Callable(name) == [type |-> "function", s |-> name, elems |-> <<>>, keys |-> <<>>]
\* What the one-argument formatter of the custom registries returns for v.
Wrapped(v) == [type |-> "Wrapped", s |-> "", elems |-> <<v>>, keys |-> <<>>]

\* The classes type t inherits from, itself included (its __mro__).
Mro(t) ==
    CASE t = "SubDocument" -> {"SubDocument", "Document", "object"}
      [] OTHER -> {t, "object"}

\* isinstance(v, t)
IsInstance(v, t) == t \in Mro(v.type)

-----------------------------------------------------------------------------
(* The formatters: _apply_formatter and _format_value. *)

\* A call that returned v / that raised err.  applied lists, in call order,
\* the registry entries _apply_formatter was called for.
Returned(v) == [ok |-> TRUE, value |-> v, error |-> "", applied |-> <<>>]
Raised(err) == [ok |-> FALSE, value |-> Str(""), error |-> err, applied |-> <<>>]

\* len(inspect.signature(formatter).parameters); -1 when inspect.signature
\* raises ValueError, as it does for an operator.attrgetter object.
Signature(formatter) ==
    CASE formatter = "page_content" -> -1
      [] formatter = "wrap" -> 1
      [] formatter = "list_format" -> 2
      [] formatter = "dict_format" -> 2
      [] formatter = "three" -> 3

\* PROMPT_DEFAULT_FORMATTERS, in its insertion order.
PROMPT_DEFAULT_FORMATTERS ==
    << <<"Document", "page_content">>,
       <<"list", "list_format">>,
       <<"dict", "dict_format">> >>

RECURSIVE _format_value(_, _)
RECURSIVE _apply_formatter(_, _, _)
RECURSIVE FormatEach(_, _)

\* [format(e) for e in es]: the formatted elements in order; the first
\* element that raises ends the comprehension.
FormatEach(fmts, es) ==
    IF es = <<>> THEN [ok |-> TRUE, values |-> <<>>, error |-> "", applied |-> <<>>]
    ELSE LET head == _format_value(fmts, es[1])
         IN  IF ~head.ok
             THEN [ok |-> FALSE, values |-> <<>>, error |-> head.error,
                   applied |-> head.applied]
             ELSE LET rest == FormatEach(fmts, Tail(es))
                  IN  [ok |-> rest.ok,
                       values |-> IF rest.ok THEN <<head.value>> \o rest.values
                                  ELSE <<>>,
                       error |-> rest.error,
                       applied |-> head.applied \o rest.applied]

\* attrgetter("page_content")(v)
AttrGetterPageContent(v) ==
    IF IsInstance(v, "Document") THEN Returned(Str(v.s))
    ELSE Raised("AttributeError")

\* ListFormatter that returns the list without formatting its elements.
ListFormatterShallow(list_value, fmts) == Returned(list_value)

\* lambda list_value, format: [format(e) for e in list_value]
ListFormatter(list_value, fmts) ==
    LET each == FormatEach(fmts, list_value.elems)
    IN  IF each.ok THEN [Returned(List(each.values)) EXCEPT !.applied = each.applied]
        ELSE [Raised(each.error) EXCEPT !.applied = each.applied]

\* lambda dict_value, format: {k: format(v) for k, v in dict_value.items()}
DictFormatter(dict_value, fmts) ==
    LET each == FormatEach(fmts, dict_value.elems)
    IN  IF each.ok
        THEN [Returned(Dict(dict_value.keys, each.values))
                 EXCEPT !.applied = each.applied]
        ELSE [Raised(each.error) EXCEPT !.applied = each.applied]

_apply_formatter(fmts, formatter, v) ==
    LET sig == Signature(formatter)
        arity == IF sig = -1 THEN 1 ELSE sig
    IN  IF arity = 1
        THEN IF formatter = "page_content" THEN AttrGetterPageContent(v)
             ELSE Returned(Wrapped(v))
        ELSE IF arity = 2
        THEN IF formatter = "list_format" THEN ListFormatter(v, fmts)
             ELSE DictFormatter(v, fmts)
        ELSE Raised("ValueError")

\* Dispatch without the exact-type lookup: the instance scan alone.
DispatchScanOnly(fmts, v) ==
    LET hits == {i \in 1..Len(fmts) : IsInstance(v, fmts[i][1])}
    IN  IF hits = {} THEN 0
        ELSE CHOOSE i \in hits : \A j \in hits : i <= j

\* The index of the entry _format_value picks for v, 0 when it picks none:
\* the entry of type(v) itself, else the first one v is an instance of.
Dispatch(fmts, v) ==
    IF Has(fmts, v.type)
    THEN CHOOSE i \in 1..Len(fmts) : fmts[i][1] = v.type
    ELSE LET hits == {i \in 1..Len(fmts) : IsInstance(v, fmts[i][1])}
         IN  IF hits = {} THEN 0
             ELSE CHOOSE i \in hits : \A j \in hits : i <= j

_format_value(fmts, v) ==
    LET i == Dispatch(fmts, v)
    IN  IF i = 0 THEN Returned(v)
        ELSE LET r == _apply_formatter(fmts, fmts[i][2], v)
             IN  [r EXCEPT !.applied =
                     <<[type |-> fmts[i][1], formatter |-> fmts[i][2]]>> \o @]

-----------------------------------------------------------------------------
(* The calls of _format_value that are checked. *)

\* The keys "k1", "k2", ... of a dict value with n entries.
DictKeys(n) == [i \in 1..n |-> "k" \o ToString(i)]

\* The list and dict values whose elements are drawn from S.
Containers(S) ==
    {List(es) : es \in SeqsUpTo(S, MaxLen)} \cup
    {Dict(DictKeys(Len(es)), es) : es \in SeqsUpTo(S, MaxLen)}

Leaves == {Str("a"), Document("pc")}
Atoms == Leaves \cup {SubDocument("sub")}
Flat == Atoms \cup Containers(Leaves)

\* The entries a registry may hold: a type and a formatter that accepts the
\* instances of that type.
RegistryEntries ==
    ({"object", "str", "list", "dict", "Document", "SubDocument"}
        \X {"wrap", "three"})
    \cup {<<"Document", "page_content">>, <<"SubDocument", "page_content">>,
          <<"list", "list_format">>, <<"dict", "dict_format">>}

Registries ==
    {r \in SeqsUpTo(RegistryEntries, MaxReg) :
        \A i, j \in 1..Len(r) : r[i][1] = r[j][1] => i = j}

NotCalled == [called |-> FALSE]

FormatIdle == registry = <<>> /\ arg = Str("") /\ formatted = NotCalled

\* _format_value(registry, arg) is called and returns or raises.
FormatValue ==
    /\ formatted = NotCalled
    /\ formatted' = [called |-> TRUE, out |-> _format_value(registry, arg)]
    /\ UNCHANGED <<registry, arg, doc, prompt, rendered,
                   templates, origin, clock, prepared, last, fs>>

-----------------------------------------------------------------------------
(* Templates. *)

\* A BasePromptTemplate instance: its four fields.
Template(iv, pv, fmts, parser) ==
    [input_variables |-> iv, partial_variables |-> pv,
     formatters |-> fmts, output_parser |-> parser]

NoTemplate == Template(<<>>, <<>>, <<>>, "None")
NoDocument == [page_content |-> "", metadata |-> <<>>]

DocumentIdle == doc = NoDocument /\ prompt = NoTemplate /\ rendered = NotCalled

TemplateIdle ==
    /\ templates = <<>> /\ origin = <<>> /\ clock = 0 /\ prepared = <<>>
    /\ last = [op |-> "none"]

SaveIdle == fs = [dirs |-> {}, files |-> <<>>]

-----------------------------------------------------------------------------
(* BasePromptTemplate: validate_variable_names, partial, _prepare_variables. *)

\* The validator without its check of the partial variables' names.
ValidateInputNamesOnly(values) ==
    IF "stop" \in Range(values.input_variables)
    THEN "Cannot have an input variable named 'stop'"
    ELSE IF Range(values.input_variables) \cap Keys(values.partial_variables) # {}
    THEN "Found overlapping input and partial variables"
    ELSE ""

\* The root validator: "" when the values pass, else the ValueError raised.
validate_variable_names(values) ==
    IF "stop" \in Range(values.input_variables)
    THEN "Cannot have an input variable named 'stop'"
    ELSE IF "stop" \in Keys(values.partial_variables)
    THEN "Cannot have an partial variable named 'stop'"
    ELSE IF Range(values.input_variables) \cap Keys(values.partial_variables) # {}
    THEN "Found overlapping input and partial variables"
    ELSE ""

\* set(self.input_variables).difference(kwargs)
InputVariablesAfter(self, kwargs) == Range(self.input_variables) \ Keys(kwargs)

\* PartialVariablesAfter that forgets the bindings.
PartialVariablesKept(self, kwargs) == self.partial_variables

\* {**self.partial_variables, **kwargs}
PartialVariablesAfter(self, kwargs) == Merge(self.partial_variables, kwargs)

\* The orders list(a_set) may give: every sequence of the set's elements.
Listings(S) ==
    {q \in [1..Cardinality(S) -> S] : \A i, j \in DOMAIN q : q[i] = q[j] => i = j}

\* partial() that binds only the names self declares as input variables.
PartialDeclaredOnly(self, kwargs, listing) ==
    [self EXCEPT !.input_variables = listing,
                 !.partial_variables =
                     Merge(self.partial_variables,
                           SelectSeq(kwargs,
                               LAMBDA kv : kv[1] \in Range(self.input_variables)))]

\* The prompt_dict partial() hands to type(self): a copy of self's fields with
\* input_variables (in the order list() gave) and partial_variables replaced.
partial(self, kwargs, listing) ==
    [self EXCEPT !.input_variables = listing,
                 !.partial_variables = PartialVariablesAfter(self, kwargs)]

\* The value the callable partial returns at its n-th invocation.
Invoke(n) == Str("t" \o ToString(n))

RECURSIVE PartialKwargs(_, _)
\* {k: v if isinstance(v, str) else v() for k, v in partial_variables.items()}
\* with the callable invoked n times before: the dict, the keys whose value
\* was invoked (in order) and the invocations after.
PartialKwargs(partial_variables, n) ==
    IF partial_variables = <<>>
    THEN [kwargs |-> <<>>, invoked |-> <<>>, clock |-> n]
    ELSE LET k == partial_variables[1][1]
             v == partial_variables[1][2]
         IN  IF IsInstance(v, "str")
             THEN LET rest == PartialKwargs(Tail(partial_variables), n)
                  IN  [rest EXCEPT !.kwargs = <<<<k, v>>>> \o @]
             ELSE LET rest == PartialKwargs(Tail(partial_variables), n + 1)
                  IN  [rest EXCEPT !.kwargs = <<<<k, Invoke(n + 1)>>>> \o @,
                                   !.invoked = <<k>> \o @]

\* AllVariables with the partial variables laid over the supplied ones.
AllVariablesPartialWins(partial_kwargs, kwargs) == Merge(kwargs, partial_kwargs)

\* {**partial_kwargs, **kwargs}
AllVariables(partial_kwargs, kwargs) == Merge(partial_kwargs, kwargs)

RECURSIVE FormatAll(_, _)
\* {k: _format_value(formatters, v) for k, v in all_variables.items()}
FormatAll(fmts, all_variables) ==
    IF all_variables = <<>> THEN [ok |-> TRUE, variables |-> <<>>, error |-> ""]
    ELSE LET head == _format_value(fmts, all_variables[1][2])
         IN  IF ~head.ok
             THEN [ok |-> FALSE, variables |-> <<>>, error |-> head.error]
             ELSE LET rest == FormatAll(fmts, Tail(all_variables))
                  IN  [rest EXCEPT !.variables =
                          IF rest.ok
                          THEN <<<<all_variables[1][1], head.value>>>> \o @
                          ELSE <<>>]

\* _prepare_variables that leaves alone the partial variables the caller
\* overrides.
PrepareSkipOverridden(self, kwargs, n) ==
    LET partial_kwargs ==
            PartialKwargs(SelectSeq(self.partial_variables,
                              LAMBDA kv : kv[1] \notin Keys(kwargs)), n)
        all_variables == AllVariables(partial_kwargs.kwargs, kwargs)
        out == FormatAll(self.formatters, all_variables)
    IN  [ok |-> out.ok, variables |-> out.variables, error |-> out.error,
         invoked |-> partial_kwargs.invoked, clock |-> partial_kwargs.clock]

\* self._prepare_variables(**kwargs) with the callable invoked n times
\* before: the mapping returned (or the error raised), the keys whose
\* callable was invoked and the invocations after.
_prepare_variables(self, kwargs, n) ==
    LET partial_kwargs == PartialKwargs(self.partial_variables, n)
        all_variables == AllVariables(partial_kwargs.kwargs, kwargs)
        out == FormatAll(self.formatters, all_variables)
    IN  [ok |-> out.ok, variables |-> out.variables, error |-> out.error,
         invoked |-> partial_kwargs.invoked, clock |-> partial_kwargs.clock]

\* The names, partial values, registries and parsers the model draws from.
Names == {"x", "y", "stop"}
PartialValues == {Str("foo"), Callable("clock")}
SuppliedValues == {Str("bar"), Document("pc")}
CUSTOM_FORMATTERS == << <<"str", "wrap">>, <<"Document", "page_content">> >>
FormatterChoices == {PROMPT_DEFAULT_FORMATTERS, CUSTOM_FORMATTERS}
Parsers == {"None", "parser"}
\* The arguments of the constructor, of partial() and of _prepare_variables.
InputVariableChoices == SeqsUpTo(Names, MaxVars)
PartialVariableChoices == DictsUpTo(Names, PartialValues, MaxPartial)
BindingChoices == DictsUpTo(Names, PartialValues, MaxBind)
SuppliedChoices == DictsUpTo(Names \ {"stop"}, SuppliedValues, MaxSupplied)

\* type(self)(**values): the instance is created when the validator passes.
\* The model follows one constructor call and what partial() derives from
\* the instance it created.
Construct(iv, pv, fmts, parser) ==
    LET values == Template(iv, pv, fmts, parser)
        error == validate_variable_names(values)
    IN  /\ IF error = ""
           THEN /\ templates' = Append(templates, values)
                /\ origin' = Append(origin, [by |-> "constructor"])
                /\ prepared' = Append(prepared, 0)
           ELSE UNCHANGED <<templates, origin, prepared>>
        /\ last' = [op |-> "construct", ok |-> error = "", error |-> error,
                    values |-> values, before |-> templates]
        /\ UNCHANGED <<registry, arg, formatted, doc, prompt, rendered, clock, fs>>

\* partial() working on self.__dict__ itself instead of a copy of it.
InstancesAfterPartialInPlace(instances, i, new) ==
    Append([instances EXCEPT ![i] = new], new)

\* The instances after partial() on instance i returned new.
InstancesAfterPartial(instances, i, new) == Append(instances, new)

\* templates[i].partial(**kwargs)
Partial(i, kwargs) ==
    /\ \E listing \in Listings(InputVariablesAfter(templates[i], kwargs)) :
          LET prompt_dict == partial(templates[i], kwargs, listing)
              error == validate_variable_names(prompt_dict)
          IN  /\ IF error = ""
                 THEN /\ templates' = InstancesAfterPartial(templates, i, prompt_dict)
                      /\ origin' = Append(origin,
                            [by |-> "partial", self |-> i, kwargs |-> kwargs,
                             before |-> templates[i]])
                      /\ prepared' = Append(prepared, 0)
                 ELSE UNCHANGED <<templates, origin, prepared>>
              /\ last' = [op |-> "partial", ok |-> error = "", error |-> error,
                          self |-> i, kwargs |-> kwargs, before |-> templates]
    /\ UNCHANGED <<registry, arg, formatted, doc, prompt, rendered, clock, fs>>

\* templates[i]._prepare_variables(**kwargs)
Prepare(i, kwargs) ==
    LET out == _prepare_variables(templates[i], kwargs, clock)
    IN  /\ clock' = out.clock
        /\ prepared' = [prepared EXCEPT ![i] = @ + 1]
        /\ last' = [op |-> "prepare", ok |-> out.ok, error |-> out.error,
                    self |-> i, kwargs |-> kwargs, clock |-> clock, out |-> out]
        /\ UNCHANGED <<registry, arg, formatted, doc, prompt, rendered,
                       templates, origin, fs>>

InitTemplates ==
    /\ templates = <<>> /\ origin = <<>> /\ prepared = <<>> /\ clock = 0
    /\ last = [op |-> "none"]
    /\ FormatIdle /\ DocumentIdle /\ SaveIdle

NextTemplates ==
    \/ /\ last.op = "none"
       /\ \E iv \in InputVariableChoices, pv \in PartialVariableChoices,
             fmts \in FormatterChoices, parser \in Parsers :
             Construct(iv, pv, fmts, parser)
    \/ /\ Len(templates) < MaxTemplates
       /\ \E i \in 1..Len(templates), kwargs \in BindingChoices :
             Partial(i, kwargs)
    \/ /\ Sum(prepared) < MaxPrepare
       /\ \E i \in 1..Len(templates), kwargs \in SuppliedChoices :
             Prepare(i, kwargs)

\* A template is constructed, partial() derives instances from the instances
\* that exist, and _prepare_variables runs on them.
SpecTemplates == InitTemplates /\ [][NextTemplates]_vars

\* The templates the constructor accepts.
Constructible ==
    {t \in {Template(iv, pv, fmts, parser) :
               iv \in InputVariableChoices, pv \in PartialVariableChoices,
               fmts \in FormatterChoices, parser \in Parsers} :
        validate_variable_names(t) = ""}

InitPrepare ==
    /\ templates \in {<<t>> : t \in Constructible}
    /\ origin = <<[by |-> "constructor"]>> /\ prepared = <<0>> /\ clock = 0
    /\ last = [op |-> "none"]
    /\ FormatIdle /\ DocumentIdle /\ SaveIdle

NextPrepare ==
    /\ Sum(prepared) < MaxRepeat
    /\ \E kwargs \in SuppliedChoices : Prepare(1, kwargs)

\* _prepare_variables runs again and again on one constructed template.
SpecPrepare == InitPrepare /\ [][NextPrepare]_vars

-----------------------------------------------------------------------------
(* BasePromptTemplate.save *)

\* A target path: the directories above the file and the file's suffix.
Paths ==
    [parents : {<<>>, <<"prompts">>, <<"prompts", "v1">>},
     suffix : {".json", ".yaml", ".txt", ""}]

\* directory_path.mkdir(parents=True, exist_ok=True)
Mkdir(dirs, parents) == dirs \cup {SubSeq(parents, 1, n) : n \in 0..Len(parents)}

\* self.dict(): the fields without the formatters, and "_type".
PromptDict(self, prompt_type) ==
    [input_variables |-> self.input_variables,
     partial_variables |-> self.partial_variables,
     output_parser |-> self.output_parser,
     type |-> prompt_type]

\* self.save(path) on file system files: the error raised ("" when none) and
\* the file system after.  prompt_type is what the concrete class's
\* _prompt_type gives; the base class's raises NotImplementedError.
save(self, path, prompt_type, files) ==
    IF self.partial_variables # <<>>
    THEN [error |-> "Cannot save prompt with partial variables.", fs |-> files]
    ELSE LET made == [files EXCEPT !.dirs = Mkdir(@, path.parents)]
         IN  IF prompt_type = "NotImplementedError"
             THEN [error |-> "NotImplementedError", fs |-> made]
             ELSE IF path.suffix = ".json"
             THEN [error |-> "",
                   fs |-> [made EXCEPT !.files =
                              Put(@, path, [dump |-> "json",
                                            data |-> PromptDict(self, prompt_type)])]]
             ELSE IF path.suffix = ".yaml"
             THEN [error |-> "",
                   fs |-> [made EXCEPT !.files =
                              Put(@, path, [dump |-> "yaml",
                                            data |-> PromptDict(self, prompt_type)])]]
             ELSE [error |-> "must be json or yaml", fs |-> made]

Save(path, prompt_type) ==
    LET out == save(prompt, path, prompt_type, fs)
    IN  /\ fs' = out.fs
        /\ last' = [op |-> "save", ok |-> out.error = "", error |-> out.error,
                    path |-> path, before |-> fs]
        /\ UNCHANGED <<registry, arg, formatted, doc, prompt, rendered,
                       templates, origin, clock, prepared>>

InitSave ==
    /\ prompt \in Constructible
    /\ fs \in {[dirs |-> {<<>>}, files |-> <<>>],
               [dirs |-> {<<>>, <<"prompts">>}, files |-> <<>>]}
    /\ doc = NoDocument /\ rendered = NotCalled
    /\ FormatIdle /\ TemplateIdle

NextSave ==
    /\ last.op = "none"
    /\ \E path \in Paths, prompt_type \in {"prompt", "NotImplementedError"} :
          Save(path, prompt_type)

\* save() is called once on a constructed template.
SpecSave == InitSave /\ [][NextSave]_vars

-----------------------------------------------------------------------------
(* format_document *)

\* prompt.format(**kwargs) of the concrete template class: the renderer, of
\* which only the call is modelled.
Format(p, kwargs) == [renderer |-> p, kwargs |-> kwargs]

\* {"page_content": doc.page_content, **doc.metadata}
BaseInfo(d) == Merge(<< <<"page_content", d.page_content>> >>, d.metadata)

\* DocumentInfo that passes everything the document offers.
DocumentInfoAll(base_info, input_variables) == base_info

RECURSIVE DocumentInfo(_, _)
\* {k: base_info[k] for k in input_variables}
DocumentInfo(base_info, input_variables) ==
    IF input_variables = <<>> THEN <<>>
    ELSE LET k == input_variables[Len(input_variables)]
             front == SubSeq(input_variables, 1, Len(input_variables) - 1)
         IN  Put(DocumentInfo(base_info, front), k, Get(base_info, k))

\* The outcome of format_document(d, p): the renderer's result and the calls
\* made to it, or the ValueError with the two lists of its message.
format_document(d, p) ==
    LET base_info == BaseInfo(d)
        missing_metadata == Range(p.input_variables) \ Keys(base_info)
    IN  IF Cardinality(missing_metadata) > 0
        THEN [called |-> TRUE, ok |-> FALSE, error |-> "ValueError",
              required_metadata |->
                  SelectSeq(p.input_variables, LAMBDA iv : iv # "page_content"),
              missing_metadata |-> missing_metadata,
              format_calls |-> <<>>, result |-> Format(p, <<>>)]
        ELSE LET document_info == DocumentInfo(base_info, p.input_variables)
             IN  [called |-> TRUE, ok |-> TRUE, error |-> "",
                  required_metadata |-> <<>>, missing_metadata |-> {},
                  format_calls |-> <<document_info>>,
                  result |-> Format(p, document_info)]

DocumentNames == {"page_content", "page", "source"}

Documents ==
    [page_content : {"This is a joke"},
     metadata : DictsUpTo(DocumentNames, {"1", "meta"}, MaxMeta)]

FormatDocument ==
    /\ rendered = NotCalled
    /\ rendered' = format_document(doc, prompt)
    /\ UNCHANGED <<registry, arg, formatted, doc, prompt,
                   templates, origin, clock, prepared, last, fs>>

InitDocument ==
    /\ doc \in Documents
    /\ prompt \in {Template(iv, <<>>, PROMPT_DEFAULT_FORMATTERS, "None") :
                      iv \in SeqsUpTo(DocumentNames, MaxVars)}
    /\ rendered = NotCalled
    /\ FormatIdle /\ TemplateIdle /\ SaveIdle

NextDocument == FormatDocument

SpecDocument == InitDocument /\ [][NextDocument]_vars

\* C7: format_document raises, naming the missing variables and without
\* calling the renderer, when an input variable is neither page_content nor a
\* metadata key; otherwise it calls the renderer once, with exactly the input
\* variables as keys, each bound to the metadata value of that name or, for
\* page_content without such a metadata key, to the document's content, and
\* returns the renderer's result.
C7_FormatDocument ==
    rendered.called =>
        LET names == {"page_content"} \cup Keys(doc.metadata)
            info == [k \in names |->
                        IF k \in Keys(doc.metadata) THEN Get(doc.metadata, k)
                        ELSE doc.page_content]
            missing == Range(prompt.input_variables) \ names
        IN  IF missing # {}
            THEN /\ ~rendered.ok
                 /\ rendered.missing_metadata = missing
                 /\ rendered.format_calls = <<>>
            ELSE /\ rendered.ok
                 /\ Len(rendered.format_calls) = 1
                 /\ Keys(rendered.format_calls[1]) = Range(prompt.input_variables)
                 /\ \A k \in Range(prompt.input_variables) :
                       Get(rendered.format_calls[1], k) = info[k]
                 /\ rendered.result = Format(prompt, rendered.format_calls[1])

\* The renderer was called for a document whose metadata overrides
\* page_content and holds a key the template does not name.
C7_Witness ==
    /\ rendered.called /\ rendered.ok
    /\ "page_content" \in Range(prompt.input_variables)
    /\ "page_content" \in Keys(doc.metadata)
    /\ Keys(doc.metadata) \ Range(prompt.input_variables) # {}
    /\ Len(rendered.format_calls) = 1

-----------------------------------------------------------------------------
(* Specifications of _format_value. *)

\* Any registry, values one level deep.
InitDispatch ==
    /\ registry \in Registries
    /\ arg \in Flat
    /\ formatted = NotCalled
    /\ DocumentIdle /\ TemplateIdle /\ SaveIdle

\* The default registry, values two levels deep.
InitDefault ==
    /\ registry = PROMPT_DEFAULT_FORMATTERS
    /\ \/ arg \in Flat
       \/ \E n \in 0..MaxLen : \E es \in [1..n -> Flat] :
             arg \in {List(es), Dict(DictKeys(n), es)}
    /\ formatted = NotCalled
    /\ DocumentIdle /\ TemplateIdle /\ SaveIdle

NextFormat == FormatValue

SpecDispatch == InitDispatch /\ [][NextFormat]_vars
SpecDefault == InitDefault /\ [][NextFormat]_vars

-----------------------------------------------------------------------------
(* C6 *)

\* The outcome of a call without the registry entries it went through.
Outcome(r) == [ok |-> r.ok, value |-> r.value, error |-> r.error]

\* C6: _format_value applies the formatter registered for type(v) itself when
\* there is one, even after an ancestor's entry; else the formatter of the
\* first entry, in insertion order, whose type v is an instance of; else it
\* returns v unchanged and applies no formatter.
C6_DispatchOrder ==
    formatted.called =>
        LET r == formatted.out
            t == arg.type
            anc == {i \in 1..Len(registry) : registry[i][1] \in Mro(t)}
            first == CHOOSE i \in anc : \A j \in anc : i <= j
            picked == IF t \in Keys(registry) THEN <<t, Get(registry, t)>>
                      ELSE registry[first]
            direct == _apply_formatter(registry, picked[2], arg)
        IN  IF t \in Keys(registry) \/ anc # {}
            THEN /\ r.applied # <<>>
                 /\ Head(r.applied) = [type |-> picked[1], formatter |-> picked[2]]
                 /\ Tail(r.applied) = direct.applied
                 /\ Outcome(r) = Outcome(direct)
            ELSE r = Returned(arg)

\* An exact entry is applied although an ancestor's entry was registered first.
C6_Witness ==
    /\ formatted.called
    /\ \E i, j \in 1..Len(registry) :
          /\ i < j
          /\ registry[j][1] = arg.type
          /\ registry[i][1] \in Mro(arg.type)
          /\ formatted.out.ok
          /\ Head(formatted.out.applied).type = arg.type

-----------------------------------------------------------------------------
(* C10 *)

RECURSIVE DefaultFormat(_)
\* What C10 says the default registry makes of v.
DefaultFormat(v) ==
    CASE v.type = "list" ->
            List([i \in 1..Len(v.elems) |-> DefaultFormat(v.elems[i])])
      [] v.type = "dict" ->
            Dict(v.keys, [i \in 1..Len(v.elems) |-> DefaultFormat(v.elems[i])])
      [] "Document" \in Mro(v.type) -> Str(v.s)
      [] OTHER -> v

\* C10: under the default registry _format_value returns, for every finite
\* nested value, the value of the same shape in which every Document is
\* replaced by its page_content, and every formatter it applies on the way is
\* an entry of the registry it was called with.
C10_DefaultRecursion ==
    formatted.called =>
        /\ formatted.out.ok
        /\ formatted.out.value = DefaultFormat(arg)
        /\ \A i \in 1..Len(formatted.out.applied) :
              <<formatted.out.applied[i].type, formatted.out.applied[i].formatter>>
                  \in Range(registry)

\* A Document two containers deep has been formatted.
C10_Witness ==
    /\ formatted.called
    /\ arg.type = "list"
    /\ \E i \in 1..Len(arg.elems) :
          /\ arg.elems[i].type = "dict"
          /\ \E j \in 1..Len(arg.elems[i].elems) :
                arg.elems[i].elems[j].type = "Document"
    /\ formatted.out.value # arg

-----------------------------------------------------------------------------
(* C1 *)

\* Instance i came from a partial() call that bound only declared input
\* variables of the template it was called on, each to a string.
BoundStrings(i) ==
    /\ origin[i].by = "partial"
    /\ \A k \in Keys(origin[i].kwargs) :
          /\ k \in Range(origin[i].before.input_variables)
          /\ Get(origin[i].kwargs, k).type = "str"

RECURSIVE ChainStart(_)
\* The instance the chain of such partial() calls leading to i started from.
ChainStart(i) == IF BoundStrings(i) THEN ChainStart(origin[i].self) ELSE i

RECURSIVE ChainBindings(_)
\* Everything that chain bound, in the order it was bound.
ChainBindings(i) ==
    IF BoundStrings(i)
    THEN Merge(ChainBindings(origin[i].self), origin[i].kwargs)
    ELSE <<>>

\* Preparing instance i with rest gives the mapping that preparing instance j
\* with rest and the bindings gives.
SamePreparation(i, j, bindings) ==
    \A rest \in SuppliedChoices :
        Keys(rest) \cap Keys(bindings) = {} =>
            LET bound == _prepare_variables(templates[i], rest, clock)
                direct == _prepare_variables(templates[j], Merge(rest, bindings), clock)
            IN  /\ bound.ok = direct.ok
                /\ AsMap(bound.variables) = AsMap(direct.variables)

\* C1: an instance that partial() derived by binding declared input variables
\* to strings prepares, for any supplied variables that leave the bound names
\* out, the key -> value mapping that the template it was derived from
\* prepares for those variables plus the bindings; and so does the instance at
\* the end of a chain of such calls, against the template the chain started
\* from.
C1_PartialIsDeferredSupply ==
    \A i \in 1..Len(templates) :
        BoundStrings(i) =>
            /\ SamePreparation(i, origin[i].self, origin[i].kwargs)
            /\ SamePreparation(i, ChainStart(i), ChainBindings(i))

\* _prepare_variables has run on the instance at the end of a chain of two
\* partial() calls that bound one declared input variable each to a string.
C1_Witness ==
    /\ Len(templates) = 3
    /\ BoundStrings(3) /\ origin[3].self = 2 /\ origin[3].kwargs # <<>>
    /\ BoundStrings(2) /\ origin[2].self = 1 /\ origin[2].kwargs # <<>>
    /\ Len(ChainBindings(3)) = 2
    /\ last.op = "prepare" /\ last.self = 3 /\ last.ok
    /\ Keys(last.kwargs) \cap Keys(ChainBindings(3)) = {}

-----------------------------------------------------------------------------
(* C2 *)

\* The three conditions on a template's variable names.
NamesValid(input_names, partial_names) ==
    /\ "stop" \notin input_names
    /\ "stop" \notin partial_names
    /\ input_names \cap partial_names = {}

\* C2: every instance that exists has no input variable and no partial
\* variable named "stop" and no name that is both; a constructor call or a
\* partial() call succeeds exactly when its result would be so, and a failed
\* call leaves the instances as they were.
C2_VariableNamesValid ==
    /\ \A i \in 1..Len(templates) :
          NamesValid(Range(templates[i].input_variables),
                     Keys(templates[i].partial_variables))
    /\ last.op = "construct" =>
          /\ last.ok <=> NamesValid(Range(last.values.input_variables),
                                    Keys(last.values.partial_variables))
          /\ ~last.ok => templates = last.before
    /\ last.op = "partial" =>
          LET self == last.before[last.self]
          IN  /\ last.ok <=>
                    NamesValid(Range(self.input_variables) \ Keys(last.kwargs),
                               Keys(self.partial_variables) \cup Keys(last.kwargs))
              /\ ~last.ok => templates = last.before

\* A partial() call on a derived instance has failed.
C2_Witness ==
    /\ last.op = "partial" /\ ~last.ok
    /\ Len(templates) >= 2 /\ last.self = 2
    /\ "stop" \in Keys(last.kwargs)

-----------------------------------------------------------------------------
(* C3 *)

\* C3 as claimed: partial() fails whenever a binding's name is not a declared
\* input variable of the template.
C3_FailsOnUndeclaredName ==
    last.op = "partial" =>
        (Keys(last.kwargs) \ Range(last.before[last.self].input_variables) # {}
            => ~last.ok)

\* C3 as amended: partial() fails exactly when a binding is named "stop"; a
\* binding whose name is not a declared input variable is accepted, and the
\* new instance holds it as a partial variable.
C3_FailsOnStopOnly ==
    last.op = "partial" =>
        /\ last.ok <=> "stop" \notin Keys(last.kwargs)
        /\ last.ok =>
              \A k \in Keys(last.kwargs) :
                  /\ Has(templates[Len(templates)].partial_variables, k)
                  /\ Get(templates[Len(templates)].partial_variables, k)
                        = Get(last.kwargs, k)

\* partial() has succeeded with a binding whose name the template does not
\* declare as an input variable.
C3_Witness ==
    /\ last.op = "partial" /\ last.ok
    /\ Keys(last.kwargs) \ Range(last.before[last.self].input_variables) # {}

-----------------------------------------------------------------------------
(* C4 *)

\* The mapping of partial variables T's laid under the bindings.
Overlaid(pv, kwargs) ==
    [k \in Keys(pv) \cup Keys(kwargs) |->
        IF k \in Keys(kwargs) THEN Get(kwargs, k) ELSE Get(pv, k)]

\* C4: the template partial() was called on is, ever after, what it was
\* before the call; a successful call adds one new instance, with the
\* template's formatters and output_parser, its input variables without the
\* bound names and its partial variables overlaid with the bindings; a failed
\* call changes no instance.
C4_PartialLeavesSelf ==
    /\ \A i \in 1..Len(templates) :
          origin[i].by = "partial" =>
              LET self == templates[origin[i].self]
                  new == templates[i]
              IN  /\ origin[i].self < i
                  /\ self = origin[i].before
                  /\ new.formatters = self.formatters
                  /\ new.output_parser = self.output_parser
                  /\ Range(new.input_variables)
                        = Range(self.input_variables) \ Keys(origin[i].kwargs)
                  /\ AsMap(new.partial_variables)
                        = Overlaid(self.partial_variables, origin[i].kwargs)
    /\ last.op = "partial" =>
          /\ SubSeq(templates, 1, Len(last.before)) = last.before
          /\ Len(templates) = Len(last.before) + (IF last.ok THEN 1 ELSE 0)

\* Two partial() calls on the constructed template have succeeded, one
\* binding a variable, and the instance the first one returned was itself
\* bound further.
C4_Witness ==
    /\ Len(templates) = 3
    /\ origin[2].by = "partial" /\ origin[2].self = 1 /\ origin[2].kwargs # <<>>
    /\ origin[3].by = "partial" /\ origin[3].self = 1
    /\ templates[2] # templates[1]
    /\ templates[1].output_parser = "parser"
    /\ templates[1].formatters = CUSTOM_FORMATTERS
    /\ last.op = "partial" /\ last.ok

-----------------------------------------------------------------------------
(* C5 *)

\* C5: a save() that fails because the template has partial variables or
\* because the suffix is neither .json nor .yaml leaves the file system,
\* directories included, as it was.
C5_FailedSaveChangesNothing ==
    (/\ last.op = "save"
     /\ last.error \in {"Cannot save prompt with partial variables.",
                        "must be json or yaml"})
        => fs = last.before

-----------------------------------------------------------------------------
(* C8 *)

\* The keys of the partial variables that are callables, in order.
CallableKeys(t) ==
    SelectSeq(KeyList(t.partial_variables),
              LAMBDA k : Get(t.partial_variables, k).type # "str")

\* C8: after n calls of _prepare_variables every callable partial variable
\* has been invoked n times; each call invokes each of them once, also those
\* the supplied variables override, and uses the value that invocation
\* returned (the n-th value in the n-th call on a template with one callable);
\* a string partial variable is used as it is.
C8_CallablesInvokedPerCall ==
    LET self == templates[1]
        callables == CallableKeys(self)
    IN  /\ clock = prepared[1] * Len(callables)
        /\ last.op = "prepare" =>
              /\ last.out.invoked = callables
              /\ last.out.clock = last.clock + Len(callables)
              /\ \A p \in 1..Len(callables) :
                    callables[p] \notin Keys(last.kwargs) =>
                        Get(last.out.variables, callables[p])
                            = _format_value(self.formatters,
                                           Invoke(last.clock + p)).value
              /\ Len(callables) = 1 /\ callables[1] \notin Keys(last.kwargs) =>
                    Get(last.out.variables, callables[1])
                        = _format_value(self.formatters, Invoke(prepared[1])).value
              /\ \A k \in Keys(self.partial_variables) \ Keys(last.kwargs) :
                    Get(self.partial_variables, k).type = "str" =>
                        Get(last.out.variables, k)
                            = _format_value(self.formatters,
                                           Get(self.partial_variables, k)).value

\* The third call on a template with a callable and a string partial
\* variable has overridden the callable one.
C8_Witness ==
    /\ last.op = "prepare" /\ prepared[1] = 3
    /\ Len(CallableKeys(templates[1])) = 1
    /\ Len(templates[1].partial_variables) = 2
    /\ CallableKeys(templates[1])[1] \in Keys(last.kwargs)
    /\ clock = 3

-----------------------------------------------------------------------------
(* C9 *)

\* What partial variable k resolves to in a call made after n invocations.
Resolved(t, k, n) ==
    LET v == Get(t.partial_variables, k)
        callables == CallableKeys(t)
    IN  IF v.type = "str" THEN v
        ELSE Invoke(n + CHOOSE p \in 1..Len(callables) : callables[p] = k)

\* C9: _prepare_variables returns a mapping whose keys are the partial
\* variables' and the supplied variables' names, each supplied variable bound
\* to its formatted value, each other partial variable to its formatted
\* resolved value; it raises nothing when declared input variables are missing.
C9_PreparedMapping ==
    last.op = "prepare" =>
        LET self == templates[last.self]
        IN  /\ last.ok
            /\ Keys(last.out.variables)
                  = Keys(self.partial_variables) \cup Keys(last.kwargs)
            /\ \A k \in Keys(last.out.variables) :
                  Get(last.out.variables, k) =
                      IF k \in Keys(last.kwargs)
                      THEN _format_value(self.formatters, Get(last.kwargs, k)).value
                      ELSE _format_value(self.formatters,
                                        Resolved(self, k, last.clock)).value

\* A call has overridden a partial variable with a Document, and a declared
\* input variable was not supplied.
C9_Witness ==
    /\ last.op = "prepare" /\ last.ok
    /\ Keys(last.kwargs) \cap Keys(templates[1].partial_variables) # {}
    /\ Range(templates[1].input_variables) \ Keys(last.out.variables) # {}
    /\ \E k \in Keys(last.kwargs) : Get(last.kwargs, k).type = "Document"

====
